---- MODULE Spec2Model ----
(***************************************************************************)
(* Verification model of postgresqleu.confreg: the tweet-campaign          *)
(* scheduler, form and registry (campaigns.py) and the sandboxed jinja2    *)
(* rendering layer (jinjafunc.py).  Each part has its own specification:   *)
(* SpecSched, SpecCampaign, SpecRegistry, SpecSandbox, SpecLoader,         *)
(* SpecWalk.                                                               *)
(*                                                                         *)
(* Time is wall-clock time in the conference's time zone, counted in       *)
(* units of 60/UnitsPerHour minutes since midnight of day 0; the zone is   *)
(* taken to have a fixed UTC offset, so make_aware() does not change the   *)
(* wall-clock value.                                                       *)
(***************************************************************************)
EXTENDS Integers, Sequences, FiniteSets, TLC

VARIABLES
    \* ---- _timestamps_for_tweets, run as a generator ----
    conference,   \* the conference: its posting window
    starttime,    \* argument starttime (already a datetime)
    interval,     \* argument interval, a datetime.time <<h, m>>
    randint,      \* argument randint, a datetime.time <<h, m>>
    num,          \* argument num
    gpc,          \* generator position: "created", "suspended", "finished"
    t,            \* local t
    i,            \* loop index of the iteration suspended at its yield
    out,          \* the timestamps yielded so far, in order
    advs          \* value of t after line 39, once per completed advance

schedvars == <<conference, starttime, interval, randint, num, gpc, t, i, out, advs>>

VARIABLES
    \* ---- ApprovedSessionsCampaignForm ----
    db,           \* the ConferenceSession rows in the database
    data,         \* self.data: the submitted values
    fpc,          \* "none", "submitted", "constructed", "valid", "invalid",
                  \* "generated"; "init_raised" and "clean_raised" when an
                  \* exception left __init__ or is_valid()
    fields,       \* names in self.fields
    errors,       \* keys of self.errors ("__all__" is the form-level entry)
    help,         \* self.fields['confirm'].help_text
    exc,          \* the exception that left the call, or "none"
    author,       \* the author argument of generate_tweets
    queue         \* posts handed to post_conference_social, in order

formvars == <<db, data, fpc, fields, errors, help, exc, author, queue>>

VARIABLES
    \* ---- get_campaign_from_id ----
    id,           \* argument id: text, a sequence of characters
    rpc,          \* "idle", "called", "done"
    rresult       \* what the call ended with: a return value or an exception

regvars == <<id, rpc, rresult>>

VARIABLES
    \* ---- ConfSandbox.is_safe_attribute ----
    obj,          \* argument obj: its class and the members the method looks at
    attr,         \* argument attr, the name of an existing attribute of obj
    spc,          \* "idle", "called", "done"
    verdict       \* "allow", "deny", or the exception the call ended with

sandvars == <<obj, attr, spc, verdict>>

VARIABLES
    \* ---- render_jinja_conference_response and ConfTemplateLoader ----
    privfiles,    \* paths of the files under <conference.jinjadir>/templates
    sharedfiles,  \* paths of the files under TEMPLATE_ROOT
    hostfiles,    \* paths p such that /p exists on the host
    updirfiles,   \* paths of the files directly under <conference.jinjadir>
    test,         \* request.GET.get('test') == '1'
    roottemplate, \* self.roottemplate of the loader
    lpc,          \* "idle", "request", "rendering", "done", "Http404",
                  \* "TemplateNotFound"
    requested,    \* the template argument of the latest get_source call
    lresult       \* what that call ended with

loadvars == <<privfiles, sharedfiles, hostfiles, updirfiles, test, roottemplate,
              lpc, requested, lresult>>

VARIABLES
    \* ---- find_git_revision ----
    path,         \* argument and local path: text, a sequence of characters
    cwd,          \* the working directory of the process, as its components
    marker,       \* the directory that holds .git/HEAD and what HEAD says
    wpc,          \* "idle", "while" (line 27), "body" (line 28), "returned"
    wresult       \* the value returned: "None", a short revision, or ""

walkvars == <<path, cwd, marker, wpc, wresult>>

vars == <<schedvars, formvars, regvars, sandvars, loadvars, walkvars>>

-----------------------------------------------------------------------------
(* Bounds *)

UnitsPerHour == 6
MaxNum == 3
MaxIdLen == 3
MaxPathLen == 4

-----------------------------------------------------------------------------
(* datetime arithmetic *)

DayLen == 24 * UnitsPerHour

\* datetime.time(h, m) as units since midnight
Hm(h, m) == h * UnitsPerHour + (m * UnitsPerHour) \div 60

\* datetime.timedelta(hours=x.hour, minutes=x.minute, seconds=x.second)
TimeToDelta(x) == Hm(x[1], x[2])

\* t.time()
TimeOf(dt) == dt % DayLen

\* t.date(), as a day number
DateOf(dt) == dt \div DayLen

\* datetime.datetime.combine(d, tm)
Combine(d, tm) == DateOf(d) * DayLen + tm

\* timezone.make_aware(x, conference.tzobj) in a fixed-offset zone
MakeAware(x) == x

\* values of rsec * random.random(): [0, rsec), and 0 when rsec is 0
JitterChoices(rsec) == IF rsec = 0 THEN {0} ELSE 0 .. (rsec - 1)

\* lines 38-39: t += ival; t += timedelta(seconds=rsec * random.random())
Advance(tt, ival, j) == tt + ival + j

\* variant: the test of line 40 with >= in place of >
PastWindowEnd_AtEnd(tt, conf) == TimeOf(tt) >= conf.twitter_timewindow_end

\* the test of line 40
PastWindowEnd(tt, conf) == TimeOf(tt) > conf.twitter_timewindow_end

\* variant: lines 42-45 without the "+ timedelta(days=1)"
Rollover_SameDay(tt, conf) ==
    IF PastWindowEnd(tt, conf)
    THEN MakeAware(Combine(tt, conf.twitter_timewindow_start))
    ELSE tt

\* lines 40-45: move to the window start of the next day when past the end
Rollover(tt, conf) ==
    IF PastWindowEnd(tt, conf)
    THEN MakeAware(Combine(tt + DayLen, conf.twitter_timewindow_start))
    ELSE tt

-----------------------------------------------------------------------------
(* Inputs of the scheduler *)

Conferences ==
    { [twitter_timewindow_start |-> Hm(8, 0),  twitter_timewindow_end |-> Hm(22, 0)],
      [twitter_timewindow_start |-> Hm(9, 0),  twitter_timewindow_end |-> Hm(17, 0)],
      [twitter_timewindow_start |-> Hm(0, 0),  twitter_timewindow_end |-> Hm(23, 50)] }

StartTimes == { Hm(21, 50), Hm(10, 0), Hm(23, 0), Hm(3, 0) }

IntervalTimes == { <<0, 0>>, <<6, 0>>, <<12, 0>>, <<23, 50>> }

RandomTimes == { <<0, 0>>, <<0, 30>> }

-----------------------------------------------------------------------------
(* The parts that are not in play in a run *)

\* no form is in play
FormIdle ==
    /\ db = {}
    /\ data = << >>
    /\ fpc = "none"
    /\ fields = {}
    /\ errors = {}
    /\ help = << >>
    /\ exc = "none"
    /\ author = "nobody"
    /\ queue = << >>

\* no lookup is in play
RegIdle ==
    /\ id = << >>
    /\ rpc = "idle"
    /\ rresult = << >>

\* no attribute check is in play
SandIdle ==
    /\ obj = << >>
    /\ attr = ""
    /\ spc = "idle"
    /\ verdict = ""

\* a template name: what precedes its relative path ("", "/" or "../") and
\* the path
NoName == [lead |-> "", path |-> ""]

NoResult == [kind |-> "none", from |-> "none"]

\* no rendering is in play
LoadIdle ==
    /\ privfiles = {}
    /\ sharedfiles = {}
    /\ hostfiles = {}
    /\ updirfiles = {}
    /\ test = FALSE
    /\ roottemplate = NoName
    /\ lpc = "idle"
    /\ requested = NoName
    /\ lresult = NoResult

\* no .git/HEAD anywhere
NoMarker == [dir |-> << >>, kind |-> "none"]

\* no revision walk is in play
WalkIdle ==
    /\ path = << >>
    /\ cwd = << >>
    /\ marker = NoMarker
    /\ wpc = "idle"
    /\ wresult = ""

-----------------------------------------------------------------------------
(* _timestamps_for_tweets as a generator: one action per resumption *)

SchedInit ==
    /\ conference \in Conferences
    /\ starttime \in StartTimes
    /\ interval \in IntervalTimes
    /\ randint \in RandomTimes
    /\ num \in 0 .. MaxNum
    /\ gpc = "created"
    /\ t = 0
    /\ i = 0
    /\ out = << >>
    /\ advs = << >>
    /\ FormIdle
    /\ RegIdle
    /\ SandIdle
    /\ LoadIdle
    /\ WalkIdle

\* first next(): lines 19-34, then the first iteration up to its yield
GenStart ==
    /\ gpc = "created"
    /\ t' = MakeAware(starttime)
    /\ i' = 0
    /\ IF num > 0
       THEN /\ out' = Append(out, t')
            /\ gpc' = "suspended"
       ELSE /\ out' = out
            /\ gpc' = "finished"
    /\ UNCHANGED <<conference, starttime, interval, randint, num, advs>>
    /\ UNCHANGED <<formvars, regvars, sandvars, loadvars, walkvars>>

\* a later next(): the rest of iteration i (lines 38-45), then the next yield
\* or the end of the loop
GenResume ==
    /\ gpc = "suspended"
    /\ \E j \in JitterChoices(TimeToDelta(randint)) :
          LET a == Advance(t, TimeToDelta(interval), j) IN
          /\ advs' = Append(advs, a)
          /\ t' = Rollover(a, conference)
    /\ i' = i + 1
    /\ IF i + 1 < num
       THEN /\ out' = Append(out, t')
            /\ gpc' = "suspended"
       ELSE /\ out' = out
            /\ gpc' = "finished"
    /\ UNCHANGED <<conference, starttime, interval, randint, num>>
    /\ UNCHANGED <<formvars, regvars, sandvars, loadvars, walkvars>>

SchedNext == GenStart \/ GenResume

SpecSched == SchedInit /\ [][SchedNext]_vars

-----------------------------------------------------------------------------
(* Claims about the scheduler, checked under SpecSched *)

InWindow(tt, conf) ==
    /\ TimeOf(tt) >= conf.twitter_timewindow_start
    /\ TimeOf(tt) <= conf.twitter_timewindow_end

\* C4: every timestamp yielded by _timestamps_for_tweets has a time-of-day
\* inside [twitter_timewindow_start, twitter_timewindow_end], and an advance
\* that leaves the window is replaced by window-start on the next day.
\* (Stated for runs whose start time, which is yielded as given, is itself
\* inside the window.)
C4_DailyWindow ==
    InWindow(starttime, conference) =>
        /\ \A k \in 1 .. Len(out) : InWindow(out[k], conference)
        /\ \A k \in 2 .. Len(out) :
              ~InWindow(advs[k - 1], conference)
                 => /\ TimeOf(out[k]) = conference.twitter_timewindow_start
                    /\ out[k] > advs[k - 1]
                    /\ out[k] - advs[k - 1] <= DayLen

\* C5: the generator yields exactly num timestamps (none for num = 0), the
\* first equal to the start time, each >= the previous one, and each
\* consecutive pair at least the interval apart unless a rollover was applied.
C5_LengthAndOrder ==
    /\ Len(out) <= num
    /\ gpc = "finished" => Len(out) = num
    /\ Len(out) >= 1 => out[1] = starttime
    /\ \A k \in 2 .. Len(out) :
          /\ out[k] >= out[k - 1]
          /\ TimeOf(advs[k - 1]) <= conference.twitter_timewindow_end
                => out[k] - out[k - 1] >= Hm(interval[1], interval[2])

C5_Witness ==
    /\ gpc = "finished"
    /\ num >= 3
    /\ Len(out) = num
    /\ TimeOf(advs[1]) <= conference.twitter_timewindow_end
    /\ TimeOf(advs[2]) > conference.twitter_timewindow_end
    /\ interval # <<0, 0>>

\* C6: when the advanced timestamp has a time-of-day strictly past the window
\* end, the next yielded timestamp is window-start on the calendar day after
\* the advanced timestamp's date; otherwise the advanced timestamp is yielded
\* unchanged.
C6_DayRollover ==
    \A k \in 2 .. Len(out) :
        LET a == advs[k - 1] IN
        IF TimeOf(a) > conference.twitter_timewindow_end
        THEN /\ DateOf(out[k]) = DateOf(a) + 1
             /\ TimeOf(out[k]) = conference.twitter_timewindow_start
        ELSE out[k] = a

C6_Witness ==
    /\ Len(out) >= 3
    /\ TimeOf(advs[1]) = conference.twitter_timewindow_end
    /\ out[2] = advs[1]
    /\ TimeOf(advs[2]) > conference.twitter_timewindow_end
    /\ out[3] # advs[2]

-----------------------------------------------------------------------------
(* _timestamps_for_tweets consumed as a whole: list(...) and zip(...) *)

\* the jitter draws of a run of n iterations
JitterSeqs(n, rsec) == [1 .. n -> JitterChoices(rsec)]

RECURSIVE TimestampsFrom(_, _, _, _, _)
TimestampsFrom(conf, tt, ival, js, k) ==
    IF k > Len(js)
    THEN << >>
    ELSE <<tt>> \o TimestampsFrom(conf, Rollover(Advance(tt, ival, js[k]), conf),
                                  ival, js, k + 1)

\* list(_timestamps_for_tweets(conf, start, ival, rsec, Len(js))) when the
\* random source produces the jitters js
Timestamps(conf, start, ival, js) ==
    TimestampsFrom(conf, MakeAware(start), ival, js, 1)

\* zip(a, b)
Zip(a, b) ==
    [k \in 1 .. (IF Len(a) < Len(b) THEN Len(a) ELSE Len(b)) |-> <<a[k], b[k]>>]

-----------------------------------------------------------------------------
(* ApprovedSessionsCampaignForm *)

\* the conference the form is built for
CampaignConference ==
    [name |-> "A",
     twitter_timewindow_start |-> Hm(8, 0),
     twitter_timewindow_end |-> Hm(22, 0)]

\* ConferenceSession rows that may exist
SessionPool ==
    { [id |-> 1, conference |-> "A", status |-> 1, cross_schedule |-> FALSE, track |-> 1],
      [id |-> 2, conference |-> "A", status |-> 1, cross_schedule |-> FALSE, track |-> 1],
      [id |-> 3, conference |-> "A", status |-> 1, cross_schedule |-> FALSE, track |-> 2],
      [id |-> 4, conference |-> "A", status |-> 0, cross_schedule |-> FALSE, track |-> 1],
      [id |-> 5, conference |-> "A", status |-> 1, cross_schedule |-> TRUE,  track |-> 2],
      [id |-> 6, conference |-> "B", status |-> 1, cross_schedule |-> FALSE, track |-> 3] }

TrackIds == {1, 2, 3}

\* Track.objects.filter(conference=self.conference)
ConferenceTracks(conf) == IF conf.name = "A" THEN {1, 2} ELSE {3}

\* a submitted schedule value: absent or blank, text that does not parse, or
\* a well-formed value
ValueKinds == {"", "bad", "ok"}

Authors == {"alice", "bob"}

AllFields ==
    {"starttime", "timebetween", "timerandom", "content_template", "tracks", "confirm"}

DefaultHelp == [kind |-> "default", approxend |-> 0, posts |-> 0]

\* ApprovedSessionsCampaignForm.get_queryset
get_queryset(conf, d, rows) ==
    { r \in rows : /\ r.conference = conf.name
                   /\ r.status = 1
                   /\ r.cross_schedule = FALSE
                   /\ r.track \in d.tracks }

\* all([self.data.get(f) for f in [...] + self.custom_fields])
AllFilled(d) ==
    /\ d.starttime # ""
    /\ d.timebetween # ""
    /\ d.timerandom # ""
    /\ d.content_template # ""
    /\ d.tracks # {}

\* the exception list(_timestamps_for_tweets(...)) ends with when it is given
\* the raw submitted strings: parse_datetime / parse_duration return None for
\* text they cannot parse, and None fails at is_aware(t) (line 23), at
\* .total_seconds() (line 34) or at t += ival (line 38, first iteration only)
SchedulerRaises(d, n) ==
    IF d.starttime = "bad" THEN "AttributeError"
    ELSE IF d.timerandom = "bad" THEN "AttributeError"
    ELSE IF d.timebetween = "bad" /\ n > 0 THEN "TypeError"
    ELSE "none"

\* self.get_queryset().count == 0 on line 84: the bound method count is
\* compared with 0, it is not called
CountMethodEqualsZero(conf, d, rows) == FALSE

\* variant: clean_confirm without the raise of line 87
clean_confirm_silent(conf, d, rows, flds) ==
    [fields |-> flds, raised |-> FALSE]

\* BaseCampaignForm.clean_confirm
clean_confirm(conf, d, rows, flds) ==
    IF ~d.confirm
    THEN IF CountMethodEqualsZero(conf, d, rows)
         THEN [fields |-> flds \ {"confirm"}, raised |-> FALSE]
         ELSE [fields |-> flds, raised |-> TRUE]
    ELSE [fields |-> flds, raised |-> FALSE]

\* the per-field step of validation for the fields present: a required field
\* left empty, a value its field cannot parse, a track that is not one of the
\* conference's; then clean_confirm for the confirm field, whose
\* ValidationError becomes an error of that field
CleanFields(conf, d, rows, flds) ==
    LET sched == { f \in flds \cap {"starttime", "timebetween", "timerandom"} :
                      d[f] # "ok" }
        tmpl  == IF "content_template" \in flds /\ d.content_template = ""
                 THEN {"content_template"} ELSE {}
        trk   == IF "tracks" \in flds
                    /\ (d.tracks = {} \/ ~(d.tracks \subseteq ConferenceTracks(conf)))
                 THEN {"tracks"} ELSE {}
        cc    == IF "confirm" \in flds
                 THEN clean_confirm(conf, d, rows, flds)
                 ELSE [fields |-> flds, raised |-> FALSE]
    IN  [fields |-> cc.fields,
         errors |-> sched \cup tmpl \cup trk
                       \cup (IF cc.raised THEN {"confirm"} ELSE {})]

\* BaseCampaignForm.clean: del of a key that is not in self.fields is a
\* KeyError
clean(conf, d, rows, flds, errs) ==
    IF Cardinality(get_queryset(conf, d, rows)) = 0
    THEN IF "confirm" \in flds
         THEN [fields |-> flds \ {"confirm"}, errors |-> errs \cup {"__all__"},
               exc |-> "none"]
         ELSE [fields |-> flds, errors |-> errs \cup {"__all__"},
               exc |-> "KeyError"]
    ELSE [fields |-> flds, errors |-> errs, exc |-> "none"]

\* render_sandboxed_template(s, context): the text the content template
\* renders to for the session of the context; rendering is taken to succeed
render_sandboxed_template(s, context) ==
    [template |-> s, session |-> context.session.id]

\* ApprovedSessionsCampaignForm.generate_tweet
generate_tweet(conf, session, s) ==
    render_sandboxed_template(s, [conference |-> conf, session |-> session])

\* variant: the posts are handed over as approved
generate_tweets_approved(conf, cleaned, sessions, tsl, auth) ==
    LET pairs == Zip(tsl, sessions) IN
    [k \in 1 .. Len(pairs) |->
        [conference |-> conf.name,
         text |-> generate_tweet(conf, pairs[k][2], cleaned.content_template),
         approved |-> TRUE,
         posttime |-> pairs[k][1],
         author |-> auth]]

\* ApprovedSessionsCampaignForm.generate_tweets: the calls of
\* post_conference_social, in order
generate_tweets(conf, cleaned, sessions, tsl, auth) ==
    LET pairs == Zip(tsl, sessions) IN
    [k \in 1 .. Len(pairs) |->
        [conference |-> conf.name,
         text |-> generate_tweet(conf, pairs[k][2], cleaned.content_template),
         approved |-> FALSE,
         posttime |-> pairs[k][1],
         author |-> auth]]

\* order_by('?'): the rows in any order, each once
RandomOrders(S) ==
    { p \in [1 .. Cardinality(S) -> S] : \A r \in S : \E k \in DOMAIN p : p[k] = r }

SchedIdle ==
    /\ num = 0
    /\ gpc = "idle"
    /\ t = 0
    /\ i = 0
    /\ out = << >>
    /\ advs = << >>

CampaignInit ==
    /\ conference = CampaignConference
    /\ starttime \in {Hm(21, 50), Hm(10, 0)}
    /\ interval = <<6, 0>>
    /\ randint = <<0, 30>>
    /\ SchedIdle
    /\ db \in SUBSET SessionPool
    /\ data \in [starttime : ValueKinds, timebetween : ValueKinds,
                 timerandom : ValueKinds, content_template : {"", "ok"},
                 tracks : SUBSET TrackIds, confirm : BOOLEAN]
    /\ fpc = "submitted"
    /\ fields = AllFields
    /\ errors = {}
    /\ help = DefaultHelp
    /\ exc = "none"
    /\ author = "nobody"
    /\ queue = << >>
    /\ RegIdle
    /\ SandIdle
    /\ LoadIdle
    /\ WalkIdle

\* BaseCampaignForm.__init__ (through ApprovedSessionsCampaignForm.__init__)
Construct ==
    /\ fpc = "submitted"
    /\ IF ~AllFilled(data)
       THEN /\ fields' = fields \ {"confirm"}
            /\ fpc' = "constructed"
            /\ UNCHANGED <<help, exc>>
       ELSE LET n == Cardinality(get_queryset(conference, data, db))
                e == SchedulerRaises(data, n)
            IN  IF e # "none"
                THEN /\ fpc' = "init_raised"
                     /\ exc' = e
                     /\ UNCHANGED <<fields, help>>
                ELSE /\ \E js \in JitterSeqs(n, TimeToDelta(randint)) :
                           LET tsl == Timestamps(conference, starttime,
                                                 TimeToDelta(interval), js)
                           IN  help' = IF tsl # << >>
                                       THEN [kind |-> "until",
                                             approxend |-> tsl[Len(tsl)],
                                             posts |-> n]
                                       ELSE [kind |-> "no entries",
                                             approxend |-> 0, posts |-> 0]
                     /\ fpc' = "constructed"
                     /\ UNCHANGED <<fields, exc>>
    /\ UNCHANGED <<db, data, errors, author, queue>>
    /\ UNCHANGED <<schedvars, regvars, sandvars, loadvars, walkvars>>

\* form.is_valid(): the per-field step with clean_confirm, then clean()
Validate ==
    /\ fpc = "constructed"
    /\ LET cf == CleanFields(conference, data, db, fields)
           cl == clean(conference, data, db, cf.fields, cf.errors)
       IN  /\ fields' = cl.fields
           /\ errors' = cl.errors
           /\ exc' = cl.exc
           /\ fpc' = IF cl.exc # "none" THEN "clean_raised"
                     ELSE IF cl.errors = {} THEN "valid"
                     ELSE "invalid"
    /\ UNCHANGED <<db, data, help, author, queue>>
    /\ UNCHANGED <<schedvars, regvars, sandvars, loadvars, walkvars>>

\* form.generate_tweets(author), called for a form that validated
GenerateTweets ==
    /\ fpc = "valid"
    /\ \E auth \in Authors :
       \E sessions \in RandomOrders(get_queryset(conference, data, db)) :
       \E js \in JitterSeqs(Len(sessions), TimeToDelta(randint)) :
          LET tsl == Timestamps(conference, starttime, TimeToDelta(interval), js)
          IN  /\ out' = tsl
              /\ author' = auth
              /\ queue' = queue \o generate_tweets(conference, data, sessions,
                                                   tsl, auth)
    /\ fpc' = "generated"
    /\ UNCHANGED <<db, data, fields, errors, help, exc>>
    /\ UNCHANGED <<conference, starttime, interval, randint, num, gpc, t, i, advs>>
    /\ UNCHANGED <<regvars, sandvars, loadvars, walkvars>>

CampaignNext == Construct \/ Validate \/ GenerateTweets

SpecCampaign == CampaignInit /\ [][CampaignNext]_vars

-----------------------------------------------------------------------------
(* Claims about the campaign form, checked under SpecCampaign *)

MatchesNone == get_queryset(conference, data, db) = {}

\* is_valid() has been called
ValidationEnded == fpc \in {"valid", "invalid", "clean_raised", "generated"}

\* C7: for every submission whose filters match zero records, validation
\* ends with a form-level error and without the confirm field, and no
\* exception leaves validation.
C7_EmptyTargetSet ==
    (ValidationEnded /\ MatchesNone) =>
        /\ fpc # "clean_raised"
        /\ "__all__" \in errors
        /\ "confirm" \notin fields

C10_Generation ==
    fpc = "generated" =>
        LET qs == get_queryset(conference, data, db) IN
        /\ Len(queue) = Cardinality(qs)
        /\ Len(out) = Cardinality(qs)
        /\ \A r \in qs :
              Cardinality({k \in 1 .. Len(queue) : queue[k].text.session = r.id}) = 1
        /\ \A k \in 1 .. Len(queue) :
              /\ queue[k].approved = FALSE
              /\ queue[k].author = author
              /\ queue[k].posttime = out[k]
        /\ \A k \in 2 .. Len(queue) : queue[k].posttime >= queue[k - 1].posttime

C10_Witness ==
    /\ fpc = "generated"
    /\ Len(queue) = 3
    /\ queue[1].text.session # 1
    /\ queue[2].posttime > queue[1].posttime
    /\ TimeOf(queue[3].posttime) = conference.twitter_timewindow_start

-----------------------------------------------------------------------------
(* The campaign registry *)

\* allcampaigns
allcampaigns == << <<1, "ApprovedSessionsCampaign">> >>

IdChars == {"0", "1", "9", "a", "-"}

Digits == {"0", "1", "9"}

DigitValue(c) == IF c = "0" THEN 0 ELSE IF c = "1" THEN 1 ELSE 9

\* the texts of up to MaxIdLen characters
IdTexts == UNION { [1 .. n -> IdChars] : n \in 0 .. MaxIdLen }

RECURSIVE DecimalValue(_)
DecimalValue(ds) ==
    IF ds = << >> THEN 0
    ELSE 10 * DecimalValue(SubSeq(ds, 1, Len(ds) - 1)) + DigitValue(ds[Len(ds)])

AllDigits(ds) == ds # << >> /\ \A k \in DOMAIN ds : ds[k] \in Digits

\* int(text): an optional sign followed by one or more digits, else ValueError
int(text) ==
    IF AllDigits(text)
    THEN [ok |-> TRUE, value |-> DecimalValue(text)]
    ELSE IF text # << >> /\ text[1] = "-" /\ AllDigits(Tail(text))
    THEN [ok |-> TRUE, value |-> 0 - DecimalValue(Tail(text))]
    ELSE [ok |-> FALSE, value |-> 0]

\* the loop of get_campaign_from_id from entry k of allcampaigns on
RECURSIVE LookupFrom(_, _)
LookupFrom(text, k) ==
    IF k > Len(allcampaigns)
    THEN [kind |-> "raise", value |-> "Http404"]
    ELSE IF ~int(text).ok
    THEN [kind |-> "raise", value |-> "ValueError"]
    ELSE IF allcampaigns[k][1] = int(text).value
    THEN [kind |-> "return", value |-> allcampaigns[k][2]]
    ELSE LookupFrom(text, k + 1)

get_campaign_from_id(text) == LookupFrom(text, 1)

RegistryInit ==
    /\ id \in IdTexts
    /\ rpc = "called"
    /\ rresult = << >>
    /\ conference = << >>
    /\ starttime = 0
    /\ interval = <<0, 0>>
    /\ randint = <<0, 0>>
    /\ SchedIdle
    /\ FormIdle
    /\ SandIdle
    /\ LoadIdle
    /\ WalkIdle

Lookup ==
    /\ rpc = "called"
    /\ rresult' = get_campaign_from_id(id)
    /\ rpc' = "done"
    /\ UNCHANGED id
    /\ UNCHANGED <<schedvars, formvars, sandvars, loadvars, walkvars>>

RegistryNext == Lookup

SpecRegistry == RegistryInit /\ [][RegistryNext]_vars

\* the text is the decimal numeral of a registered id
DenotesRegisteredId(text) ==
    \E k \in DOMAIN allcampaigns :
        \/ AllDigits(text) /\ DecimalValue(text) = allcampaigns[k][1]
        \/ /\ text # << >> /\ text[1] = "-" /\ AllDigits(Tail(text))
           /\ 0 - DecimalValue(Tail(text)) = allcampaigns[k][1]

\* C9: get_campaign_from_id returns the registered campaign when the text
\* denotes a registered id and raises Http404 for every other text, numeric
\* or not; it never ends with another exception.
C9_RegistryLookup ==
    rpc = "done" =>
        IF DenotesRegisteredId(id)
        THEN rresult.kind = "return"
        ELSE rresult = [kind |-> "raise", value |-> "Http404"]

-----------------------------------------------------------------------------
(* ConfSandbox.is_safe_attribute *)

\* A module name is the sequence of its dotted components.
ModuleNames ==
    { <<"postgresqleu", "confreg", "models">>,
      <<"postgresqleu", "confwiki", "models">>,
      <<"postgresqleu", "myconfwiki", "models">>,
      <<"postgresqleu", "invoices", "models">>,
      <<"postgresqleu", "invoices", "datamodels">>,
      <<"postgresqleu", "invoices", "util">>,
      <<"otherapp", "models">>,
      <<"__builtin__">> }

ClassNames == {"ConferenceSession", "InvoicePresentationWrapper", "str"}

AttrNames == {"secret", "title", "format", "_state"}

\* names that may be listed in _safe_attributes / _unsafe_attributes
ListedNames == {"secret", "title"}

\* an optional list member of the object: absent, or a list of names
OptionalLists ==
    {[has |-> FALSE, list |-> {}]} \cup { [has |-> TRUE, list |-> L] : L \in SUBSET ListedNames }

Objects ==
    [module : ModuleNames, class : ClassNames,
     safe : OptionalLists,          \* _safe_attributes
     unsafe : OptionalLists,        \* _unsafe_attributes
     has_conference : BOOLEAN]      \* hasattr(obj, 'conference')

\* component c ends with the characters suf
ComponentEndsWith(c, suf) ==
    \/ c = suf
    \/ <<c, suf>> \in { <<"myconfwiki", "confwiki">>, <<"datamodels", "models">> }

\* modname.startswith('postgresqleu.')
StartsWithPgeu(m) == Len(m) >= 2 /\ m[1] = "postgresqleu"

\* modname.endswith('models')
EndsWithModels(m) == ComponentEndsWith(m[Len(m)], "models")

\* modname.endswith('.confreg.models')
EndsWithDotConfregModels(m) ==
    Len(m) >= 3 /\ m[Len(m)] = "models" /\ m[Len(m) - 1] = "confreg"

\* modname.endswith('confwiki.models')
EndsWithConfwikiModels(m) ==
    Len(m) >= 2 /\ m[Len(m)] = "models" /\ ComponentEndsWith(m[Len(m) - 1], "confwiki")

\* line 106: the class is a pgeu model
IsPgeuModel(o) == StartsWithPgeu(o.module) /\ EndsWithModels(o.module)

\* variant: line 109 without its "not"
IsTrustedNamespace_Inverted(o) ==
    ~(EndsWithDotConfregModels(o.module) \/ EndsWithConfwikiModels(o.module))

\* line 109: the model is in confreg or confwiki
IsTrustedNamespace(o) ==
    EndsWithDotConfregModels(o.module) \/ EndsWithConfwikiModels(o.module)

\* jinja2's SandboxedEnvironment.is_safe_attribute for an instance of a plain
\* class: names with a leading underscore are refused
DefaultSandboxAllows(o, a) == a \notin {"_state"}

\* variant: lines 123-130 taken as if every object had a 'conference' member
LacksConference_Never(o) == FALSE

\* line 123: not hasattr(obj, 'conference')
LacksConference(o) == ~o.has_conference

\* ConfSandbox.is_safe_attribute
is_safe_attribute(o, a) ==
    IF o.class \in {"str", "unicode"} /\ a = "format"
    THEN "deny"
    ELSE IF IsPgeuModel(o)
    THEN IF ~IsTrustedNamespace(o) /\ ~o.safe.has
         THEN "deny"
         ELSE IF ~IsTrustedNamespace(o) /\ a \notin o.safe.list
         THEN "deny"
         ELSE IF LacksConference(o)
         THEN IF o.safe.has
              THEN IF a \notin o.safe.list
                   THEN "deny"
                   ELSE IF DefaultSandboxAllows(o, a) THEN "allow" ELSE "deny"
              ELSE "deny"
         ELSE IF o.unsafe.has /\ a \in o.unsafe.list
         THEN "deny"
         ELSE IF DefaultSandboxAllows(o, a) THEN "allow" ELSE "deny"
    ELSE IF o.module = <<"postgresqleu", "invoices", "util">>
            /\ o.class = "InvoicePresentationWrapper"
    THEN IF ~o.unsafe.has
         THEN "AttributeError"
         ELSE IF a \in o.unsafe.list
         THEN "deny"
         ELSE IF DefaultSandboxAllows(o, a) THEN "allow" ELSE "deny"
    ELSE IF DefaultSandboxAllows(o, a) THEN "allow" ELSE "deny"

SandboxInit ==
    /\ obj \in Objects
    /\ attr \in AttrNames
    /\ spc = "called"
    /\ verdict = ""
    /\ conference = << >>
    /\ starttime = 0
    /\ interval = <<0, 0>>
    /\ randint = <<0, 0>>
    /\ SchedIdle
    /\ FormIdle
    /\ RegIdle
    /\ LoadIdle
    /\ WalkIdle

\* one attribute access of a template: the call of is_safe_attribute
CheckAttribute ==
    /\ spc = "called"
    /\ verdict' = is_safe_attribute(obj, attr)
    /\ spc' = "done"
    /\ UNCHANGED <<obj, attr>>
    /\ UNCHANGED <<schedvars, formvars, regvars, loadvars, walkvars>>

SandboxNext == CheckAttribute

SpecSandbox == SandboxInit /\ [][SandboxNext]_vars

\* C2: for an object of a restricted-namespace class, is_safe_attribute
\* allows an attribute only if it is listed in the object's _safe_attributes
\* or the object has a 'conference' member; an object with neither is denied
\* every attribute.
C2_DefaultDeny ==
    (spc = "done" /\ StartsWithPgeu(obj.module) /\ EndsWithModels(obj.module)) =>
        /\ verdict = "allow"
              => ((obj.safe.has /\ attr \in obj.safe.list) \/ obj.has_conference)
        /\ (~obj.safe.has /\ ~obj.has_conference) => verdict = "deny"

C2_Witness ==
    /\ spc = "done"
    /\ obj.module = <<"postgresqleu", "confreg", "models">>
    /\ ~obj.safe.has
    /\ ~obj.has_conference
    /\ attr = "title"
    /\ verdict = "deny"

\* the attribute is refused by a rule other than the namespace rules: it is
\* listed in _unsafe_attributes, starts with an underscore, or is str.format
BarredOtherwise(o, a) ==
    \/ o.unsafe.has /\ a \in o.unsafe.list
    \/ a = "_state"
    \/ (o.class = "str" /\ a = "format")

-----------------------------------------------------------------------------
(* ConfTemplateLoader and render_jinja_conference_response *)

RelPaths ==
    {"base.html", "page.html", "page.html.test", "other.html",
     "invoices/userinvoice_spec.html"}

Leads == {"", "/", "../"}

TemplateNames == [lead : Leads, path : RelPaths]

\* ConfTemplateLoader.WHITELISTED_TEMPLATES
WHITELISTED_TEMPLATES == { [lead |-> "", path |-> "invoices/userinvoice_spec.html"] }

\* the templatename argument of render_jinja_conference_response
PageTemplates == { [lead |-> "", path |-> "page.html"] }

\* templatename + '.test'
TestName(name) == [name EXCEPT !.path = @ \o ".test"]

\* os.path.exists(os.path.join(self.conference.jinjadir, 'templates', template)):
\* os.path.join drops what precedes an absolute component, and '..' leaves
\* the templates directory
ExistsUnderTemplates(name, priv, host, updir) ==
    IF name.lead = "/" THEN name.path \in host
    ELSE IF name.lead = "../" THEN name.path \in updir
    ELSE name.path \in priv

\* jinja2.FileSystemLoader.get_source with the searchpath of line 62:
\* split_template_path refuses a '..' piece and drops empty pieces (a leading
\* '/'), then the first directory of the searchpath holding the file wins
FileSystemLoader_get_source(name, priv, shared) ==
    IF name.lead = "../" THEN [kind |-> "TemplateNotFound", from |-> "missing"]
    ELSE IF name.path \in priv THEN [kind |-> "source", from |-> "private"]
    ELSE IF name.path \in shared THEN [kind |-> "source", from |-> "shared"]
    ELSE [kind |-> "TemplateNotFound", from |-> "missing"]

\* ConfTemplateLoader.get_source
get_source(root, name, priv, shared, host, updir) ==
    IF /\ name # root
       /\ ~ExistsUnderTemplates(name, priv, host, updir)
       /\ name \notin WHITELISTED_TEMPLATES
    THEN [kind |-> "TemplateNotFound", from |-> "rejected"]
    ELSE FileSystemLoader_get_source(name, priv, shared)

LoaderInit ==
    /\ privfiles \in SUBSET RelPaths
    /\ sharedfiles \in SUBSET RelPaths
    /\ hostfiles \in SUBSET {"other.html"}
    /\ updirfiles \in SUBSET {"other.html"}
    /\ test \in BOOLEAN
    /\ roottemplate = NoName
    /\ lpc = "request"
    /\ requested = NoName
    /\ lresult = NoResult
    /\ conference = << >>
    /\ starttime = 0
    /\ interval = <<0, 0>>
    /\ randint = <<0, 0>>
    /\ SchedIdle
    /\ FormIdle
    /\ RegIdle
    /\ SandIdle
    /\ WalkIdle

\* render_jinja_conference_response up to env.get_template(templatename)
StartRender ==
    /\ lpc = "request"
    /\ IF "base.html" \notin privfiles
       THEN /\ lpc' = "Http404"
            /\ UNCHANGED <<roottemplate, requested, lresult>>
       ELSE \E templatename \in PageTemplates :
               LET entry == IF test THEN TestName(templatename) ELSE templatename
                   res   == get_source(templatename, entry, privfiles, sharedfiles,
                                       hostfiles, updirfiles)
               IN  /\ roottemplate' = templatename
                   /\ requested' = entry
                   /\ lresult' = res
                   /\ lpc' = IF res.kind = "source" THEN "rendering"
                             ELSE "TemplateNotFound"
    /\ UNCHANGED <<privfiles, sharedfiles, hostfiles, updirfiles, test>>
    /\ UNCHANGED <<schedvars, formvars, regvars, sandvars, walkvars>>

\* t.render(): an extends / include / import directive of a loaded template
\* asks the loader for another template; a failed load ends the rendering
\* unless the directive says "ignore missing"
LoadReferenced ==
    /\ lpc = "rendering"
    /\ \E name \in TemplateNames, ignore_missing \in BOOLEAN :
          LET res == get_source(roottemplate, name, privfiles, sharedfiles,
                                hostfiles, updirfiles)
          IN  /\ requested' = name
              /\ lresult' = res
              /\ lpc' = IF res.kind = "source" \/ ignore_missing THEN "rendering"
                        ELSE "TemplateNotFound"
    /\ UNCHANGED <<privfiles, sharedfiles, hostfiles, updirfiles, test, roottemplate>>
    /\ UNCHANGED <<schedvars, formvars, regvars, sandvars, walkvars>>

\* t.render() returns and the response is built
FinishRender ==
    /\ lpc = "rendering"
    /\ lpc' = "done"
    /\ UNCHANGED <<privfiles, sharedfiles, hostfiles, updirfiles, test, roottemplate,
                   requested, lresult>>
    /\ UNCHANGED <<schedvars, formvars, regvars, sandvars, walkvars>>

LoaderNext == StartRender \/ LoadReferenced \/ FinishRender

SpecLoader == LoaderInit /\ [][LoaderNext]_vars

\* C1: in a rendering session get_source returns a source only if the
\* requested name is the session's root template (found in the private
\* directory first, then the shared one), or the file is inside the
\* conference's private template directory, or the name is a literal member
\* of WHITELISTED_TEMPLATES; any other name is rejected with TemplateNotFound
\* even when a file of that name exists in the shared directory.
C1_LoaderGuard ==
    lresult.kind = "source" =>
        \/ /\ requested = roottemplate
           /\ lresult.from = (IF requested.path \in privfiles THEN "private"
                              ELSE "shared")
        \/ lresult.from = "private"
        \/ requested \in WHITELISTED_TEMPLATES

-----------------------------------------------------------------------------
(* find_git_revision: the walk up the tree, one action per loop step *)

PathChars == {"/", "a", "b"}

\* values of conference.jinjadir: texts of at most MaxPathLen characters
Paths == UNION { [1..n -> PathChars] : n \in 0..MaxPathLen }

\* a directory is the sequence of its names below the filesystem root
DirA == <<"a">>

DirB == <<"b">>

WorkingDirs == { << >>, <<DirA>> }

MarkerDirs == { << >>, <<DirA>>, <<DirB>>, <<DirA, DirA>>, <<DirA, DirB>> }

\* what .git/HEAD holds: "branch" is 'ref: refs/heads/<x>' with the file
\* .git/refs/heads/<x> present, "noref" the same with that file missing,
\* "detached" anything else
HeadKinds == {"branch", "detached", "noref"}

\* at most one directory of the filesystem holds .git/HEAD
Markers == {NoMarker} \cup [dir : MarkerDirs, kind : HeadKinds]

\* p.rfind('/') + 1
RFindSlash(p) ==
    LET S == {k \in 1..Len(p) : p[k] = "/"}
    IN  IF S = {} THEN 0 ELSE CHOOSE k \in S : \A m \in S : m <= k

\* head == '/' * len(head)
AllSlashes(s) == \A k \in 1..Len(s) : s[k] = "/"

\* head.rstrip('/')
RStripSlash(s) ==
    LET S == {k \in 1..Len(s) : s[k] # "/"}
    IN  IF S = {} THEN << >>
        ELSE SubSeq(s, 1, CHOOSE k \in S : \A m \in S : m <= k)

\* os.path.dirname(p): everything up to the last slash, without trailing
\* slashes unless it is made of slashes only
dirname(p) ==
    LET head == SubSeq(p, 1, RFindSlash(p))
    IN  IF head # << >> /\ ~AllSlashes(head) THEN RStripSlash(head) ELSE head

\* the names of a path text: its pieces between slashes, empty pieces dropped
RECURSIVE Components(_)
Components(p) ==
    IF p = << >> THEN << >>
    ELSE LET S     == {k \in 1..Len(p) : p[k] = "/"}
             first == IF S = {} THEN Len(p) + 1
                      ELSE CHOOSE k \in S : \A m \in S : k <= m
             piece == SubSeq(p, 1, first - 1)
         IN  (IF piece = << >> THEN << >> ELSE <<piece>>)
                 \o Components(SubSeq(p, first + 1, Len(p)))

\* the directory that os.path.join(p, ".git/HEAD") looks into: a text that
\* does not start with a slash is taken from the working directory
Resolve(p, wd) ==
    IF p # << >> /\ p[1] = "/" THEN Components(p) ELSE wd \o Components(p)

\* os.path.exists(os.path.join(p, ".git/HEAD"))
exists_git_HEAD(p, wd, mk) == mk.kind # "none" /\ mk.dir = Resolve(p, wd)

WalkInit ==
    /\ path \in Paths
    /\ cwd \in WorkingDirs
    /\ marker \in Markers
    /\ wpc = "while"
    /\ wresult = ""
    /\ conference = << >>
    /\ starttime = 0
    /\ interval = <<0, 0>>
    /\ randint = <<0, 0>>
    /\ SchedIdle
    /\ FormIdle
    /\ RegIdle
    /\ SandIdle
    /\ LoadIdle

\* line 27: while path != '/', and line 42 when the test fails
LoopTest ==
    /\ wpc = "while"
    /\ IF path = <<"/">>
       THEN /\ wpc' = "returned"
            /\ wresult' = "None"
       ELSE /\ wpc' = "body"
            /\ UNCHANGED wresult
    /\ UNCHANGED <<path, cwd, marker>>
    /\ UNCHANGED <<schedvars, formvars, regvars, sandvars, loadvars>>

\* lines 28-39: .git/HEAD is there; return the first 7 characters of the
\* branch's ref file, or None when HEAD names no branch or the file is missing
ReadMarker ==
    /\ wpc = "body"
    /\ exists_git_HEAD(path, cwd, marker)
    /\ wresult' = (IF marker.kind = "branch" THEN "fullref[:7]" ELSE "None")
    /\ wpc' = "returned"
    /\ UNCHANGED <<path, cwd, marker>>
    /\ UNCHANGED <<schedvars, formvars, regvars, sandvars, loadvars>>

\* lines 40-41: else step up one level
StepUp ==
    /\ wpc = "body"
    /\ ~exists_git_HEAD(path, cwd, marker)
    /\ path' = dirname(path)
    /\ wpc' = "while"
    /\ UNCHANGED <<cwd, marker, wresult>>
    /\ UNCHANGED <<schedvars, formvars, regvars, sandvars, loadvars>>

WalkNext == LoopTest \/ ReadMarker \/ StepUp

\* the interpreter keeps executing the call: a step that can be taken is taken
SpecWalk == WalkInit /\ [][WalkNext]_vars /\ WF_vars(WalkNext)

\* C11: for every starting directory path (not the empty text), absolute or
\* relative, with or without a trailing slash, find_git_revision terminates:
\* the call eventually returns, with None (not an endless loop) when no
\* .git/HEAD is found anywhere on the walk up.
C11_WalkTerminates == path # << >> => <>(wpc = "returned")

====
